---- MODULE Spec2Model ----
(***************************************************************************)
(* keydra IAM provider (src/keydra/providers/aws_iam.py).                  *)
(*                                                                         *)
(* The module models Client.rotate as a step machine over one IAM user:    *)
(* every outbound service call is one step that either succeeds or raises  *)
(* ClientError.  validate_spec and redact_result are pure operators, each  *)
(* exercised by a specification of its own, and so are distribute and the  *)
(* callers of _get_aws_account_id that share one Client.                   *)
(***************************************************************************)
EXTENDS Integers, Sequences, FiniteSets, TLC

VARIABLES
    \* ---- the IAM service's state for the user secret['key']
    exists,         \* the user exists
    tags,           \* the user's tag list (ordered, as get_user returns it)
    keys,           \* the user's access keys: set of [AccessKeyId, Status, LastUsedDate]
    groups,         \* groups the user is a member of
    attached,       \* ARNs of the managed policies attached to the user
    created,        \* number of access keys the service has issued to the user so far
    \* ---- the Client instance
    account_id,     \* Client._account_id
    \* ---- one rotate call
    secret,         \* the secret descriptor's config: [tags, groups, policies]
    pc,             \* position in rotate
    attempt,        \* attempt number under exponential_backoff_retry
    keys_by_id,     \* rotate's local dict, in insertion order
    idx,            \* _pick_best_candidate: position of the loop
    candidate,      \* _pick_best_candidate: index in keys_by_id of candidate, or None
    reason,         \* _pick_best_candidate: reason
    recon,          \* reconciliation locals: [current, expected, remove, add, attach, detach]
    result,         \* what rotate returned
    \* ---- history
    pre,            \* the account when the rotate call started
    listed,         \* the keys as the service held them when this attempt listed them, in list order
    log,            \* the service calls made in this attempt, in order
    faults,         \* service calls that raised ClientError so far, get_user for an absent user aside
    calls,          \* rotate calls started
    \* ---- validate_spec / redact_result
    vspec,          \* input of validate_spec
    vout,           \* result of validate_spec
    rin,            \* input of redact_result
    rout,           \* the result envelope after the calls of redact_result so far
    rn,             \* number of calls of redact_result on the envelope
    \* ---- distribute
    dest,           \* the destination distribute was called with
    dout,           \* the exception distribute raised
    \* ---- callers of _get_aws_account_id sharing the Client instance
    tpc,            \* each caller's position in _get_aws_account_id
    fetched,        \* each caller's value of get_caller_identity().get('Account'), before it is stored
    ret,            \* what _get_aws_account_id returned to each caller
    tcalls,         \* calls of _get_aws_account_id each caller has started
    lookups,        \* calls of sts get_caller_identity that returned the account
    assigns         \* assignments to Client._account_id made

iam   == <<exists, tags, keys, groups, attached, created>>
local == <<keys_by_id, idx, candidate, reason, recon>>
hist  == <<pre, listed, log, faults, calls>>
dist  == <<dest, dout>>
conc  == <<tpc, fetched, ret, tcalls, lookups, assigns>>
pure  == <<vspec, vout, rin, rout, rn, dest, dout, tpc, fetched, ret, tcalls, lookups, assigns>>
vars  == <<exists, tags, keys, groups, attached, created, account_id, secret, pc, attempt,
           keys_by_id, idx, candidate, reason, recon, result,
           pre, listed, log, faults, calls, vspec, vout, rin, rout, rn,
           dest, dout, tpc, fetched, ret, tcalls, lookups, assigns>>

(***************************************************************************)
(* Bounds                                                                  *)
(***************************************************************************)
MaxTime == 2
MaxGroups == 2
MaxPolicies == 2
MaxTags == 1
MaxCalls == 2
MaxFaults == 3
MaxThreads == 2

(***************************************************************************)
(* Values                                                                  *)
(***************************************************************************)
None == 0
NoAccount == "None"
ManagedBy == 0
PW_FIELD == "secret"
MaxAttempts == 3
KeyQuota == 2
AccountId == "123456789012"
OtherAccount == "aws"

Times == 1..MaxTime
GroupNames == 1..MaxGroups
PolicyNames == 1..MaxPolicies
TagNames == 1..MaxTags

Range(s) == {s[i] : i \in 1..Len(s)}
Perms(S) == {s \in [1..Cardinality(S) -> S] : \A i, j \in 1..Cardinality(S) : s[i] = s[j] => i = j}
DistinctSeqs(S) == UNION {Perms(T) : T \in SUBSET S}

Tag(k, v) == [Key |-> k, Value |-> v]
NoResult == [provider |-> "none", key |-> None, secret |-> <<>>]
NoRecon == [current |-> {}, expected |-> {}, remove |-> {}, add |-> {}, attach |-> {}, detach |-> {}]

(***************************************************************************)
(* Helpers of the module                                                   *)
(***************************************************************************)
\* _explain_secret
_explain_secret(aws_secret) ==
    [provider |-> "iam", key |-> aws_secret.AccessKeyId, secret |-> aws_secret.SecretAccessKey]

\* _make_policy_arn, given the account id _get_aws_account_id returns
_make_policy_arn(acct, policy_name_with_path) ==
    <<"arn:aws:iam::", acct, ":policy/", policy_name_with_path>>

\* expected_tags of _create_user_if_not_available
expected_tags(options) ==
    <<Tag(ManagedBy, "keydra")>> \o (IF options.tags # <<>> THEN options.tags ELSE <<>>)

\* groups as _update_user_group_membership normalises them: a scalar becomes [scalar]
NormalizedGroups(g) == IF g.isList THEN g.items ELSE <<g.name>>
rightful_groups(g) == Range(NormalizedGroups(g))

\* one service call of this attempt, with its argument and whether it succeeded
Call(op, arg, ok) == log' = Append(log, [op |-> op, arg |-> arg, ok |-> ok])

\* one call of a reconciliation loop.  The loop runs over a Python set, whose iteration
\* order is arbitrary, so the calls of one loop are recorded together: the arguments
\* called and those for which the call succeeded
LoopCall(op, arg, ok) ==
    IF log # <<>> /\ log[Len(log)].op = op
    THEN log' = [log EXCEPT ![Len(log)].arg = @ \cup {arg},
                            ![Len(log)].ok = IF ok THEN @ \cup {arg} ELSE @]
    ELSE log' = Append(log, [op |-> op, arg |-> {arg}, ok |-> IF ok THEN {arg} ELSE {}])

\* the service answers a call with ClientError: because it must (forced: the user is
\* missing, exists already, or has its quota of keys), or for any other reason, which
\* happens a bounded number of times
Fails(forced) == (forced \/ faults < MaxFaults) /\ faults' = faults + 1

\* the except clause swallowing the error: rotate returns nothing
Raise_Swallowed == pc' = "done"

\* a ClientError that reaches rotate's except clause: RotationException
Raise == pc' = "raised"

(***************************************************************************)
(* rotate, under exponential_backoff_retry(3)                              *)
(***************************************************************************)
\* the locals of one attempt, as they are when the attempt starts
EnterAttempt ==
    /\ pc' = "get_user"
    /\ keys_by_id' = <<>>
    /\ idx' = None
    /\ candidate' = None
    /\ reason' = "None"
    /\ recon' = NoRecon
    /\ result' = NoResult
    /\ listed' = <<>>
    /\ log' = <<>>

\* the account as a rotate call finds it
Snapshot ==
    [exists |-> exists, tags |-> tags, keys |-> keys, groups |-> groups, attached |-> attached,
     created |-> created]

\* the framework calls rotate(secret)
Rotate ==
    /\ pc \in {"idle", "done", "failed"}
    /\ calls < MaxCalls
    /\ calls' = calls + 1
    /\ attempt' = 1
    /\ pre' = Snapshot
    /\ EnterAttempt
    /\ UNCHANGED <<iam, account_id, secret, faults, pure>>

\* exponential_backoff_retry: the whole call is run again after a RotationException
Retry ==
    /\ pc = "raised"
    /\ attempt < MaxAttempts
    /\ attempt' = attempt + 1
    /\ EnterAttempt
    /\ UNCHANGED <<iam, account_id, secret, pre, faults, calls, pure>>

\* exponential_backoff_retry: the last attempt's exception reaches the caller
GiveUp ==
    /\ pc = "raised"
    /\ attempt = MaxAttempts
    /\ pc' = "failed"
    /\ UNCHANGED <<iam, account_id, secret, attempt, local, result, hist, pure>>

(***************************************************************************)
(* _create_user_if_not_available                                           *)
(***************************************************************************)
\* the comparison that decides whether tag_user is called
TagsDiffer(current, expected) == current # expected

GetUser ==
    /\ pc = "get_user"
    /\ \/ /\ exists
          /\ Call("get_user", None, TRUE)
          /\ pc' = IF TagsDiffer(tags, expected_tags(secret)) THEN "tag_user" ELSE "list_access_keys"
          /\ UNCHANGED faults
       \/ /\ Call("get_user", None, FALSE)
          /\ pc' = "create_user"
          /\ IF exists THEN Fails(FALSE) ELSE UNCHANGED faults
    /\ UNCHANGED <<iam, account_id, secret, attempt, local, result, pre, listed, calls, pure>>

\* the user's tags after the service's TagUser: the tags given are added to the user's,
\* a tag with a key the user carries already takes the value given, no tag is removed
TagUserResult(current, new) ==
    LET given(k) == new[CHOOSE j \in DOMAIN new : new[j].Key = k]
        held == {current[i].Key : i \in DOMAIN current}
        sent == {new[j].Key : j \in DOMAIN new}
    IN  [i \in DOMAIN current |-> IF current[i].Key \in sent THEN given(current[i].Key) ELSE current[i]]
        \o SelectSeq(new, LAMBDA t : t.Key \notin held)

\* tag_user(UserName=iam_user, Tags=expected_tags)
TagUser ==
    /\ pc = "tag_user"
    /\ \/ /\ Call("tag_user", expected_tags(secret), TRUE)
          /\ tags' = TagUserResult(tags, expected_tags(secret))
          /\ pc' = "list_access_keys"
          /\ UNCHANGED faults
       \/ /\ Call("tag_user", expected_tags(secret), FALSE)
          /\ pc' = "create_user"
          /\ Fails(~exists)
          /\ UNCHANGED tags
    /\ UNCHANGED <<exists, keys, groups, attached, created, account_id, secret, attempt, local,
                   result, pre, listed, calls, pure>>

CreateUser ==
    /\ pc = "create_user"
    /\ \/ /\ ~exists
          /\ Call("create_user", None, TRUE)
          /\ exists' = TRUE
          /\ tags' = expected_tags(secret)
          /\ pc' = "list_access_keys"
          /\ UNCHANGED faults
       \/ /\ Call("create_user", None, FALSE)
          /\ Fails(exists)
          /\ Raise
          /\ UNCHANGED <<exists, tags>>
    /\ UNCHANGED <<keys, groups, attached, created, account_id, secret, attempt, local, result,
                   pre, listed, calls, pure>>

(***************************************************************************)
(* _fetch_access_keys                                                      *)
(***************************************************************************)
\* the dict entry made of one AccessKeyMetadata item; last_used is filled in later
Entry(k) == [AccessKeyId |-> k.AccessKeyId, Status |-> k.Status, last_used |-> None]

\* "more than 1" written as "at least 1": the only key is treated as one too many
AfterFetch_KillOne(kbi) ==
    IF Len(kbi) >= 1 THEN "get_access_key_last_used" ELSE "list_groups_for_user"

\* where rotate goes with the keys it holds: the "more than 1" and "== 1" tests
AfterFetch(kbi) ==
    IF Len(kbi) > 1 THEN "get_access_key_last_used"
    ELSE IF Len(kbi) = 1 THEN "update_access_key"
    ELSE "list_groups_for_user"

ListAccessKeys ==
    /\ pc = "list_access_keys"
    /\ \/ /\ exists
          /\ \E order \in Perms(keys) :
                /\ listed' = order
                /\ keys_by_id' = [i \in 1..Len(order) |-> Entry(order[i])]
                /\ pc' = AfterFetch(keys_by_id')
                /\ idx' = IF pc' = "get_access_key_last_used" THEN 1 ELSE None
          /\ Call("list_access_keys", None, TRUE)
          /\ UNCHANGED faults
       \/ /\ Call("list_access_keys", None, FALSE)
          /\ Fails(~exists)
          /\ Raise
          /\ UNCHANGED <<keys_by_id, idx, listed>>
    /\ UNCHANGED <<iam, account_id, secret, attempt, candidate, reason, recon, result,
                   pre, calls, pure>>

(***************************************************************************)
(* _pick_best_candidate                                                    *)
(***************************************************************************)
\* LastUsedDate the service reports for a key id
LastUsedDate(ks, kid) == (CHOOSE k \in ks : k.AccessKeyId = kid).LastUsedDate

\* the comparison turned round: the key used last is preferred
OlderThan_Newer(a, b) == a > b

\* "Older keys have preference"
OlderThan(a, b) == a < b

\* the loop without the test of the key's status
PickIteration_NoStatus(kbi, i, cand, rsn) ==
    LET c == IF cand = None THEN i ELSE cand
        r == IF cand = None THEN "initial_option" ELSE rsn
    IN  IF kbi[i].last_used = None \/ kbi[c].last_used = None
        THEN [candidate |-> c, reason |-> r, stop |-> FALSE]
        ELSE IF kbi[i].last_used < kbi[c].last_used
        THEN [candidate |-> i, reason |-> "last_used", stop |-> FALSE]
        ELSE [candidate |-> c, reason |-> r, stop |-> FALSE]

\* the loop without the test of key['last_used']: a key never used counts as the oldest
PickIteration_NoKeyTest(kbi, i, cand, rsn) ==
    IF kbi[i].Status # "Active"
    THEN [candidate |-> i, reason |-> "inactive", stop |-> TRUE]
    ELSE LET c == IF cand = None THEN i ELSE cand
             r == IF cand = None THEN "initial_option" ELSE rsn
         IN  IF kbi[c].last_used = None
             THEN [candidate |-> c, reason |-> r, stop |-> FALSE]
             ELSE IF kbi[i].last_used < kbi[c].last_used
             THEN [candidate |-> i, reason |-> "last_used", stop |-> FALSE]
             ELSE [candidate |-> c, reason |-> r, stop |-> FALSE]

\* one iteration of the loop over keys_by_id.items(), after key['last_used'] was set:
\* the candidate and reason it leaves, and whether it ends the loop (break)
PickIteration(kbi, i, cand, rsn) ==
    IF kbi[i].Status # "Active"
    THEN [candidate |-> i, reason |-> "inactive", stop |-> TRUE]
    ELSE LET c == IF cand = None THEN i ELSE cand
             r == IF cand = None THEN "initial_option" ELSE rsn
         IN  IF kbi[i].last_used = None \/ kbi[c].last_used = None
             THEN [candidate |-> c, reason |-> r, stop |-> FALSE]
             ELSE IF OlderThan(kbi[i].last_used, kbi[c].last_used)
             THEN [candidate |-> i, reason |-> "last_used", stop |-> FALSE]
             ELSE [candidate |-> c, reason |-> r, stop |-> FALSE]

\* rotate going on without deleting the candidate
AfterPick_NoDelete(kbi, cand) ==
    IF Len(kbi) = 1 THEN "update_access_key" ELSE "list_groups_for_user"

\* rotate after _pick_best_candidate returned: delete the candidate if there is one
AfterPick(kbi, cand) ==
    IF cand # None THEN "delete_access_key"
    ELSE IF Len(kbi) = 1 THEN "update_access_key"
    ELSE "list_groups_for_user"

GetAccessKeyLastUsed ==
    /\ pc = "get_access_key_last_used"
    /\ LET kid == keys_by_id[idx].AccessKeyId IN
       \/ /\ \E k \in keys : k.AccessKeyId = kid
          /\ LET kbi == [keys_by_id EXCEPT ![idx].last_used = LastUsedDate(keys, kid)]
                 it  == PickIteration(kbi, idx, candidate, reason)
             IN  /\ keys_by_id' = kbi
                 /\ candidate' = it.candidate
                 /\ reason' = it.reason
                 /\ IF it.stop \/ idx = Len(kbi)
                    THEN /\ pc' = AfterPick(kbi, it.candidate)
                         /\ idx' = idx
                    ELSE /\ pc' = pc
                         /\ idx' = idx + 1
          /\ Call("get_access_key_last_used", kid, TRUE)
          /\ UNCHANGED faults
       \/ /\ Call("get_access_key_last_used", kid, FALSE)
          /\ Fails(FALSE)
          /\ Raise
          /\ UNCHANGED <<keys_by_id, idx, candidate, reason>>
    /\ UNCHANGED <<iam, account_id, secret, attempt, recon, result, pre, listed, calls, pure>>

(***************************************************************************)
(* _delete_access_key, _update_access_key, _create_access_key              *)
(***************************************************************************)
\* keys_by_id.pop(key_id)
Pop(kbi, kid) == SelectSeq(kbi, LAMBDA e : e.AccessKeyId # kid)

DeleteAccessKey ==
    /\ pc = "delete_access_key"
    /\ LET kid == keys_by_id[candidate].AccessKeyId IN
       \/ /\ \E k \in keys : k.AccessKeyId = kid
          /\ keys' = {k \in keys : k.AccessKeyId # kid}
          /\ keys_by_id' = Pop(keys_by_id, kid)
          /\ candidate' = None
          /\ pc' = IF Len(keys_by_id') = 1 THEN "update_access_key" ELSE "list_groups_for_user"
          /\ Call("delete_access_key", kid, TRUE)
          /\ UNCHANGED faults
       \/ /\ Call("delete_access_key", kid, FALSE)
          /\ Fails(FALSE)
          /\ Raise
          /\ UNCHANGED <<keys, keys_by_id, candidate>>
    /\ UNCHANGED <<exists, tags, groups, attached, created, account_id, secret, attempt,
                   idx, reason, recon, result, pre, listed, calls, pure>>

\* active_string with the two branches exchanged
ActiveString_Swapped(active) == IF active THEN "Inactive" ELSE "Active"

\* active_string whatever the argument
ActiveString_AlwaysActive(active) == "Active"

\* active_string of _update_access_key
ActiveString(active) == IF active THEN "Active" ELSE "Inactive"

\* the service's keys after update_access_key(AccessKeyId=key_id, Status=status)
WithStatus(ks, kid, status) ==
    {IF k.AccessKeyId = kid THEN [k EXCEPT !.Status = status] ELSE k : k \in ks}

UpdateAccessKey ==
    /\ pc = "update_access_key"
    /\ LET kid == keys_by_id[1].AccessKeyId IN
       \/ /\ \E k \in keys : k.AccessKeyId = kid
          /\ keys' = WithStatus(keys, kid, ActiveString(FALSE))
          /\ pc' = "list_groups_for_user"
          /\ Call("update_access_key", kid, TRUE)
          /\ UNCHANGED faults
       \/ /\ Call("update_access_key", kid, FALSE)
          /\ Fails(FALSE)
          /\ Raise
          /\ UNCHANGED keys
    /\ UNCHANGED <<exists, tags, groups, attached, created, account_id, secret, attempt,
                   local, result, pre, listed, calls, pure>>

\* the AccessKey the service issues: a fresh id, Active, never used
NewAccessKey(n) == [AccessKeyId |-> KeyQuota + n, SecretAccessKey |-> <<"sk", KeyQuota + n>>]

CreateAccessKey ==
    /\ pc = "create_access_key"
    /\ \/ /\ exists
          /\ Cardinality(keys) < KeyQuota
          /\ LET new_creds == NewAccessKey(created + 1) IN
                /\ keys' = keys \cup {[AccessKeyId |-> new_creds.AccessKeyId,
                                       Status |-> "Active", LastUsedDate |-> None]}
                /\ result' = _explain_secret(new_creds)
                /\ Call("create_access_key", new_creds.AccessKeyId, TRUE)
          /\ created' = created + 1
          /\ pc' = "done"
          /\ UNCHANGED faults
       \/ /\ Call("create_access_key", None, FALSE)
          /\ Fails(~exists \/ Cardinality(keys) >= KeyQuota)
          /\ Raise
          /\ UNCHANGED <<keys, created, result>>
    /\ UNCHANGED <<exists, tags, groups, attached, account_id, secret, attempt, local,
                   pre, listed, calls, pure>>

(***************************************************************************)
(* _update_user_group_membership                                           *)
(***************************************************************************)
\* every configured group is added, also those the user is in already
GroupsToAdd_All(current, rightful) == rightful

\* group_set - rightful_groups and group_set - current_groups
GroupsToRemove(current, rightful) == (current \cup rightful) \ rightful
GroupsToAdd(current, rightful) == (current \cup rightful) \ current

\* the reconciliation ending after the remove loop
GroupPc_RemoveOnly(r) ==
    IF r.remove # {} THEN "remove_user_from_group" ELSE "make_policy_arns"

\* rotate going from the group reconciliation straight to the key creation
GroupPc_SkipPolicies(r) ==
    IF r.remove # {} THEN "remove_user_from_group"
    ELSE IF r.add # {} THEN "add_user_to_group"
    ELSE "create_access_key"

\* the next loop of the group reconciliation that has something to do
GroupPc(r) ==
    IF r.remove # {} THEN "remove_user_from_group"
    ELSE IF r.add # {} THEN "add_user_to_group"
    ELSE "make_policy_arns"

ListGroupsForUser ==
    /\ pc = "list_groups_for_user"
    /\ \/ /\ exists
          /\ recon' = [recon EXCEPT !.current = groups,
                                    !.remove = GroupsToRemove(groups, rightful_groups(secret.groups)),
                                    !.add = GroupsToAdd(groups, rightful_groups(secret.groups))]
          /\ pc' = GroupPc(recon')
          /\ Call("list_groups_for_user", None, TRUE)
          /\ UNCHANGED faults
       \/ /\ Call("list_groups_for_user", None, FALSE)
          /\ pc' = "make_policy_arns"
          /\ Fails(~exists)
          /\ UNCHANGED recon
    /\ UNCHANGED <<iam, account_id, secret, attempt, keys_by_id, idx, candidate, reason, result,
                   pre, listed, calls, pure>>

RemoveUserFromGroup ==
    /\ pc = "remove_user_from_group"
    /\ \E group \in recon.remove :
          /\ recon' = [recon EXCEPT !.remove = @ \ {group}]
          /\ \/ /\ groups' = groups \ {group}
                /\ LoopCall("remove_user_from_group", group, TRUE)
                /\ UNCHANGED faults
             \/ /\ LoopCall("remove_user_from_group", group, FALSE)
                /\ Fails(FALSE)
                /\ UNCHANGED groups
    /\ pc' = GroupPc(recon')
    /\ UNCHANGED <<exists, tags, keys, attached, created, account_id, secret, attempt,
                   keys_by_id, idx, candidate, reason, result, pre, listed, calls, pure>>

AddUserToGroup ==
    /\ pc = "add_user_to_group"
    /\ \E group \in recon.add :
          /\ recon' = [recon EXCEPT !.add = @ \ {group}]
          /\ \/ /\ groups' = groups \cup {group}
                /\ LoopCall("add_user_to_group", group, TRUE)
                /\ UNCHANGED faults
             \/ /\ LoopCall("add_user_to_group", group, FALSE)
                /\ Fails(FALSE)
                /\ UNCHANGED groups
    /\ pc' = GroupPc(recon')
    /\ UNCHANGED <<exists, tags, keys, attached, created, account_id, secret, attempt,
                   keys_by_id, idx, candidate, reason, result, pre, listed, calls, pure>>

(***************************************************************************)
(* _get_aws_account_id, _update_user_policies                              *)
(***************************************************************************)
\* frozenset(secret['config']['policies'])
expected_policies == Range(secret.policies)

\* _get_aws_account_id with the cache empty: sts get_caller_identity.  It is called from
\* the set comprehension of _update_user_policies, outside its try block.
GetCallerIdentity ==
    /\ pc = "make_policy_arns"
    /\ expected_policies # {}
    /\ account_id = NoAccount
    /\ \/ /\ account_id' = AccountId
          /\ Call("get_caller_identity", None, TRUE)
          /\ UNCHANGED <<pc, faults>>
       \/ /\ Call("get_caller_identity", None, FALSE)
          /\ Fails(FALSE)
          /\ Raise
          /\ UNCHANGED account_id
    /\ UNCHANGED <<iam, secret, attempt, local, result, pre, listed, calls, pure>>

\* expected_policy_arns, once the account id is cached (or no policy is configured)
MakePolicyArns ==
    /\ pc = "make_policy_arns"
    /\ expected_policies = {} \/ account_id # NoAccount
    /\ recon' = [recon EXCEPT !.expected = {_make_policy_arn(account_id, p) : p \in expected_policies}]
    /\ pc' = "list_attached_user_policies"
    /\ UNCHANGED <<iam, account_id, secret, attempt, keys_by_id, idx, candidate, reason, result,
                   hist, pure>>

\* union_policy_arns - current_policy_arns and union_policy_arns - expected_policy_arns
PoliciesToAttach(expected, current) == (expected \cup current) \ current
PoliciesToDetach(expected, current) == (expected \cup current) \ expected

\* rotate returning after the policy reconciliation, without creating the key
PolicyPc_NoCreate(r) ==
    IF r.attach # {} THEN "attach_user_policy"
    ELSE IF r.detach # {} THEN "detach_user_policy"
    ELSE "done"

\* the next loop of the policy reconciliation that has something to do
PolicyPc(r) ==
    IF r.attach # {} THEN "attach_user_policy"
    ELSE IF r.detach # {} THEN "detach_user_policy"
    ELSE "create_access_key"

ListAttachedUserPolicies ==
    /\ pc = "list_attached_user_policies"
    /\ \/ /\ exists
          /\ recon' = [recon EXCEPT !.attach = PoliciesToAttach(recon.expected, attached),
                                    !.detach = PoliciesToDetach(recon.expected, attached)]
          /\ pc' = PolicyPc(recon')
          /\ Call("list_attached_user_policies", None, TRUE)
          /\ UNCHANGED faults
       \/ /\ Call("list_attached_user_policies", None, FALSE)
          /\ pc' = "create_access_key"
          /\ Fails(~exists)
          /\ UNCHANGED recon
    /\ UNCHANGED <<iam, account_id, secret, attempt, keys_by_id, idx, candidate, reason, result,
                   pre, listed, calls, pure>>

\* _attach_policy_to_user
AttachUserPolicy ==
    /\ pc = "attach_user_policy"
    /\ \E policy_arn \in recon.attach :
          /\ recon' = [recon EXCEPT !.attach = @ \ {policy_arn}]
          /\ \/ /\ attached' = attached \cup {policy_arn}
                /\ LoopCall("attach_user_policy", policy_arn, TRUE)
                /\ UNCHANGED faults
             \/ /\ LoopCall("attach_user_policy", policy_arn, FALSE)
                /\ Fails(FALSE)
                /\ UNCHANGED attached
    /\ pc' = PolicyPc(recon')
    /\ UNCHANGED <<exists, tags, keys, groups, created, account_id, secret, attempt,
                   keys_by_id, idx, candidate, reason, result, pre, listed, calls, pure>>

\* _detach_policy_from_user
DetachUserPolicy ==
    /\ pc = "detach_user_policy"
    /\ \E policy_arn \in recon.detach :
          /\ recon' = [recon EXCEPT !.detach = @ \ {policy_arn}]
          /\ \/ /\ attached' = attached \ {policy_arn}
                /\ LoopCall("detach_user_policy", policy_arn, TRUE)
                /\ UNCHANGED faults
             \/ /\ LoopCall("detach_user_policy", policy_arn, FALSE)
                /\ Fails(FALSE)
                /\ UNCHANGED attached
    /\ pc' = PolicyPc(recon')
    /\ UNCHANGED <<exists, tags, keys, groups, created, account_id, secret, attempt,
                   keys_by_id, idx, candidate, reason, result, pre, listed, calls, pure>>

(***************************************************************************)
(* validate_spec                                                           *)
(***************************************************************************)
\* Python values as validate_spec looks at them: their type() and their truth value
PyTypes == {"dict", "list", "str", "int"}
PyNone == [type |-> "NoneType", truthy |-> FALSE]
PyValues == [type : PyTypes, truthy : BOOLEAN] \cup {PyNone}

\* allowed_options, in the order of the dict literal
allowed_options == <<[oname |-> "tags", otype |-> "dict"],
                     [oname |-> "groups", otype |-> "list"],
                     [oname |-> "policies", otype |-> "list"]>>
allowed_names == {allowed_options[i].oname : i \in DOMAIN allowed_options}

\* spec['config'].get(oname)
Get(config, oname) == IF oname \in DOMAIN config THEN config[oname] ELSE PyNone

\* the test that rejects an option: provided_option and not type(provided_option) == otype
Mismatch(provided_option, otype) == provided_option.truthy /\ ~(provided_option.type = otype)

\* validate_spec(spec); spec.base_ok is the verdict of BaseProvider.validate_spec
validate_spec(spec) ==
    IF ~spec.base_ok THEN <<FALSE, <<"base">>>>
    ELSE IF ~spec.has_config THEN <<TRUE, <<"All good!">>>>
    ELSE LET bad == {i \in DOMAIN allowed_options :
                        Mismatch(Get(spec.config, allowed_options[i].oname), allowed_options[i].otype)}
             unknown_vals == DOMAIN spec.config \ allowed_names
         IN  IF bad # {}
             THEN LET i == CHOOSE i \in bad : \A j \in bad : i <= j
                  IN  <<FALSE, <<allowed_options[i].oname, "must be a", allowed_options[i].otype>>>>
             ELSE IF unknown_vals # {}
             THEN <<FALSE, <<"Unsupported values in provider config">>>>
             ELSE <<TRUE, <<"All good!">>>>

\* config blocks: any of the three options and an unknown key, each with any value
ConfigKeys == allowed_names \cup {"rotate_every"}
Configs == UNION {[d -> PyValues] : d \in SUBSET ConfigKeys}
SpecInputs ==
    {[base_ok |-> b, has_config |-> TRUE, config |-> c] : b \in BOOLEAN, c \in Configs}
    \cup {[base_ok |-> b, has_config |-> FALSE, config |-> <<>>] : b \in BOOLEAN}

ValidateSpec ==
    /\ vout = <<>>
    /\ vout' = validate_spec(vspec)
    /\ UNCHANGED <<iam, account_id, secret, pc, attempt, local, result, hist, vspec, rin, rout, rn,
                   dist, conc>>

(***************************************************************************)
(* redact_result                                                           *)
(***************************************************************************)
\* every field of 'value' masked, not only the secret
redact_result_AllFields(res) ==
    IF "value" \in DOMAIN res /\ PW_FIELD \in DOMAIN res["value"]
    THEN [res EXCEPT !["value"] = [f \in DOMAIN @ |-> "***"]]
    ELSE res

\* redact_result(result): dicts are functions from their keys
redact_result(res) ==
    IF "value" \in DOMAIN res /\ PW_FIELD \in DOMAIN res["value"]
    THEN [res EXCEPT !["value"] = [@ EXCEPT ![PW_FIELD] = "***"]]
    ELSE res

\* result envelopes: with or without 'value', which holds any of the result's fields
ValueFields == {"provider", "key", PW_FIELD}
Strings == {"abc", "***"}
ValueMaps == UNION {[d -> Strings] : d \in SUBSET ValueFields}
Envelopes ==
    {[k \in {"value", "action"} |-> IF k = "value" THEN v ELSE a] : v \in ValueMaps, a \in Strings}
    \cup {[k \in {"value"} |-> v] : v \in ValueMaps}
    \cup {[k \in {"action"} |-> a] : a \in Strings}
    \cup {<<>>}

RedactResult ==
    /\ rn < 2
    /\ rout' = redact_result(rout)
    /\ rn' = rn + 1
    /\ UNCHANGED <<iam, account_id, secret, pc, attempt, local, result, hist, vspec, vout, rin,
                   dist, conc>>

(***************************************************************************)
(* distribute                                                              *)
(***************************************************************************)
\* distribute returning normally, as if the secret had been pushed
distribute_Silent(sec, destination) == "None"

\* distribute(secret, destination): the exception it raises
distribute(sec, destination) == "DistributionException"

\* destinations of the framework: providers a secret can be pushed to
Destinations == {"bitbucket", "secretsmanager"}

\* the framework calls distribute(secret, destination)
Distribute ==
    /\ pc \in {"idle", "done", "failed"}
    /\ dout = "none"
    /\ \E destination \in Destinations :
          /\ dest' = destination
          /\ dout' = distribute(secret, destination)
    /\ UNCHANGED <<iam, account_id, secret, pc, attempt, local, result, hist,
                   vspec, vout, rin, rout, rn, conc>>

(***************************************************************************)
(* _get_aws_account_id, called by several rotate calls on one Client       *)
(***************************************************************************)
Threads == 1..MaxThreads

\* a caller enters _get_aws_account_id
EnterGetAccountId(t) ==
    /\ tpc[t] \in {"out", "returned", "raised"}
    /\ tcalls[t] < MaxCalls
    /\ tcalls' = [tcalls EXCEPT ![t] = @ + 1]
    /\ tpc' = [tpc EXCEPT ![t] = "check"]
    /\ fetched' = [fetched EXCEPT ![t] = NoAccount]
    /\ ret' = [ret EXCEPT ![t] = NoAccount]
    /\ UNCHANGED <<iam, account_id, secret, pc, attempt, local, result, hist,
                   vspec, vout, rin, rout, rn, dist, lookups, assigns>>

\* if self._account_id is None
CheckAccountId(t) ==
    /\ tpc[t] = "check"
    /\ tpc' = [tpc EXCEPT ![t] = IF account_id = NoAccount THEN "lookup" ELSE "return"]
    /\ UNCHANGED <<iam, account_id, secret, pc, attempt, local, result, hist,
                   vspec, vout, rin, rout, rn, dist, fetched, ret, tcalls, lookups, assigns>>

\* boto3.client('sts').get_caller_identity().get('Account'): the account of the
\* credentials, the same at every call, or ClientError
LookupAccountId(t) ==
    /\ tpc[t] = "lookup"
    /\ \/ /\ fetched' = [fetched EXCEPT ![t] = AccountId]
          /\ lookups' = lookups + 1
          /\ tpc' = [tpc EXCEPT ![t] = "assign"]
       \/ /\ tpc' = [tpc EXCEPT ![t] = "raised"]
          /\ UNCHANGED <<fetched, lookups>>
    /\ UNCHANGED <<iam, account_id, secret, pc, attempt, local, result, hist,
                   vspec, vout, rin, rout, rn, dist, ret, tcalls, assigns>>

\* self._account_id = <the value looked up>
AssignAccountId(t) ==
    /\ tpc[t] = "assign"
    /\ account_id' = fetched[t]
    /\ assigns' = assigns + 1
    /\ tpc' = [tpc EXCEPT ![t] = "return"]
    /\ UNCHANGED <<iam, secret, pc, attempt, local, result, hist,
                   vspec, vout, rin, rout, rn, dist, fetched, ret, tcalls, lookups>>

\* return self._account_id
ReturnAccountId(t) ==
    /\ tpc[t] = "return"
    /\ ret' = [ret EXCEPT ![t] = account_id]
    /\ tpc' = [tpc EXCEPT ![t] = "returned"]
    /\ UNCHANGED <<iam, account_id, secret, pc, attempt, local, result, hist,
                   vspec, vout, rin, rout, rn, dist, fetched, tcalls, lookups, assigns>>

(***************************************************************************)
(* Initial states: the account before the first rotate, and the descriptor *)
(***************************************************************************)
KeyAttrs == [Status : {"Active", "Inactive"}, LastUsedDate : {None} \cup Times]

\* n access keys with ids 1..n, of any status and last use
KeySets(n) ==
    {{[AccessKeyId |-> i, Status |-> f[i].Status, LastUsedDate |-> f[i].LastUsedDate] : i \in 1..n} :
        f \in [1..n -> KeyAttrs]}

\* config.groups: a list of names, in any order, or one bare name
GroupConfigs ==
    {[isList |-> TRUE, items |-> s, name |-> None] : s \in DistinctSeqs(GroupNames)}
    \cup {[isList |-> FALSE, items |-> <<>>, name |-> g] : g \in GroupNames}

\* config.policies: a list of names, in any order
PolicyConfigs == DistinctSeqs(PolicyNames)

\* config.tags: a dict, so its keys are distinct; items() keeps insertion order
TagConfigs == DistinctSeqs({Tag(k, "x") : k \in TagNames})

\* tag lists a user may carry before rotate
TagLists == DistinctSeqs({Tag(ManagedBy, "keydra")} \cup {Tag(k, "x") : k \in TagNames})

\* attachments a user may carry before rotate: policies of this account and an AWS-managed one
ArnSets ==
    SUBSET ({_make_policy_arn(AccountId, p) : p \in PolicyNames}
            \cup {_make_policy_arn(OtherAccount, 1)})

DefaultSecret ==
    [tags |-> <<>>, groups |-> [isList |-> TRUE, items |-> <<1>>, name |-> None], policies |-> <<1>>]

OneActiveKey == {[AccessKeyId |-> 1, Status |-> "Active", LastUsedDate |-> None]}

DefaultStart ==
    [exists |-> TRUE, tags |-> expected_tags(DefaultSecret), keys |-> OneActiveKey,
     groups |-> {}, attached |-> {}, secret |-> DefaultSecret]

\* the starts explored: each varies one part of the account and of the descriptor
Starts ==
    {[DefaultStart EXCEPT !.keys = ks] : ks \in UNION {KeySets(n) : n \in 0..KeyQuota}}
    \cup {[DefaultStart EXCEPT !.groups = c, !.secret.groups = g] :
            c \in SUBSET GroupNames, g \in GroupConfigs}
    \cup {[DefaultStart EXCEPT !.attached = c, !.secret.policies = p, !.groups = {1}] :
            c \in ArnSets, p \in PolicyConfigs}
    \cup {[DefaultStart EXCEPT !.tags = t, !.secret.tags = c, !.keys = ks] :
            t \in TagLists, c \in TagConfigs, ks \in {{}, OneActiveKey}}
    \cup {[DefaultStart EXCEPT !.exists = FALSE, !.tags = <<>>, !.keys = {}, !.secret.tags = c] :
            c \in TagConfigs}

NoSpecInput == [base_ok |-> TRUE, has_config |-> FALSE, config |-> <<>>]

InitRotate(starts) ==
    /\ \E s \in starts :
          /\ exists = s.exists
          /\ tags = s.tags
          /\ keys = s.keys
          /\ groups = s.groups
          /\ attached = s.attached
          /\ secret = s.secret
    /\ created = 0
    /\ account_id = NoAccount
    /\ pc = "idle"
    /\ attempt = 0
    /\ keys_by_id = <<>>
    /\ idx = None
    /\ candidate = None
    /\ reason = "None"
    /\ recon = NoRecon
    /\ result = NoResult
    /\ pre = Snapshot
    /\ listed = <<>>
    /\ log = <<>>
    /\ faults = 0
    /\ calls = 0

InitOther ==
    /\ dest = "none"
    /\ dout = "none"
    /\ tpc = [t \in Threads |-> "out"]
    /\ fetched = [t \in Threads |-> NoAccount]
    /\ ret = [t \in Threads |-> NoAccount]
    /\ tcalls = [t \in Threads |-> 0]
    /\ lookups = 0
    /\ assigns = 0

InitPure ==
    /\ vspec = NoSpecInput
    /\ vout = <<>>
    /\ rin = <<>>
    /\ rout = <<>>
    /\ rn = 0
    /\ InitOther

Init == InitRotate(Starts) /\ InitPure

Next ==
    \/ Rotate
    \/ Retry
    \/ GiveUp
    \/ GetUser
    \/ TagUser
    \/ CreateUser
    \/ ListAccessKeys
    \/ GetAccessKeyLastUsed
    \/ DeleteAccessKey
    \/ UpdateAccessKey
    \/ ListGroupsForUser
    \/ RemoveUserFromGroup
    \/ AddUserToGroup
    \/ GetCallerIdentity
    \/ MakePolicyArns
    \/ ListAttachedUserPolicies
    \/ AttachUserPolicy
    \/ DetachUserPolicy
    \/ CreateAccessKey

Spec == Init /\ [][Next]_vars

\* validate_spec on its own: every input, one call
InitValidate ==
    /\ InitRotate({DefaultStart})
    /\ vspec \in SpecInputs
    /\ vout = <<>>
    /\ rin = <<>>
    /\ rout = <<>>
    /\ rn = 0
    /\ InitOther

SpecValidate == InitValidate /\ [][ValidateSpec]_vars

\* redact_result on its own: every envelope, called once and again
InitRedact ==
    /\ InitRotate({DefaultStart})
    /\ vspec = NoSpecInput
    /\ vout = <<>>
    /\ rin \in Envelopes
    /\ rout = rin
    /\ rn = 0
    /\ InitOther

SpecRedact == InitRedact /\ [][RedactResult]_vars

\* distribute on its own: every account and descriptor, every destination
SpecDistribute == Init /\ [][Distribute]_vars

\* _get_aws_account_id on its own: the callers share one Client, and run one after
\* the other or interleaved
NextAccountId ==
    \E t \in Threads :
        \/ EnterGetAccountId(t)
        \/ CheckAccountId(t)
        \/ LookupAccountId(t)
        \/ AssignAccountId(t)
        \/ ReturnAccountId(t)

InitAccountId == InitRotate({DefaultStart}) /\ InitPure

SpecAccountId == InitAccountId /\ [][NextAccountId]_vars

(***************************************************************************)
(* Properties of the key lifecycle                                         *)
(***************************************************************************)
\* every service call so far succeeded
clean == faults = 0

Ids(ks) == {k.AccessKeyId : k \in ks}
ActiveKeys(ks) == {k \in ks : k.Status = "Active"}
InactiveKeys(ks) == {k \in ks : k.Status = "Inactive"}

\* positions of the attempt's log holding a call of op, and those that succeeded
Calls(op) == {i \in DOMAIN log : log[i].op = op}
OkCalls(op) == {i \in Calls(op) : log[i].ok = TRUE}

\* C1: with every service call succeeding, after each successful rotate of a user that
\* started with at most 2 keys, exactly one key is Active, it is the key whose id the
\* result carries, at most one other key exists and it is Inactive; from the second
\* rotate on the user has one Active and one Inactive key.
C1_OneActiveKeyAfterRotate ==
    (pc = "done" /\ clean) =>
        /\ Cardinality(ActiveKeys(keys)) = 1
        /\ Ids(ActiveKeys(keys)) = {result.key}
        /\ result.key \notin Ids(pre.keys)
        /\ keys \ ActiveKeys(keys) = InactiveKeys(keys)
        /\ Cardinality(InactiveKeys(keys)) <= 1
        /\ calls >= 2 => Cardinality(InactiveKeys(keys)) = 1

C1_Witness ==
    /\ pc = "done"
    /\ clean
    /\ calls = 2
    /\ Cardinality(ActiveKeys(keys)) = 1
    /\ Cardinality(InactiveKeys(keys)) = 1

\* C2 as stated: for a user with no access key a successful rotate creates the user,
\* creates exactly one key and calls neither delete_access_key nor update_access_key.
C2_AsClaimed ==
    (pc = "done" /\ pre.keys = {}) =>
        /\ ~pre.exists /\ exists
        /\ created = pre.created + 1
        /\ Cardinality(keys) = 1
        /\ Calls("delete_access_key") = {}
        /\ Calls("update_access_key") = {}

\* C2 amended: for a user with no access key, rotate creates the user only when the user
\* does not exist yet, never calls delete_access_key or update_access_key in any attempt,
\* and a successful rotate leaves the user existing with exactly one key, the one created.
C2_NoKeys ==
    (calls > 0 /\ pre.keys = {}) =>
        /\ Calls("delete_access_key") = {}
        /\ Calls("update_access_key") = {}
        /\ OkCalls("create_user") # {} => ~pre.exists
        /\ pc # "done" => created = pre.created /\ keys = {}
        /\ pc = "done" =>
              /\ exists
              /\ created = pre.created + 1
              /\ Cardinality(OkCalls("create_access_key")) = 1
              /\ Ids(keys) = {result.key}

C2_Witness ==
    /\ pc = "done"
    /\ pre.keys = {}
    /\ ~pre.exists
    /\ OkCalls("create_user") # {}
    /\ Cardinality(keys) = 1

\* C3: for a user with exactly one access key, of either status, after a successful
\* rotate that key still exists and is Inactive, no key was deleted, a new Active key
\* exists and the user has 2 keys.
C3_OneKey ==
    (pc = "done" /\ Cardinality(pre.keys) = 1) =>
        /\ Ids(pre.keys) = Ids(InactiveKeys(keys))
        /\ Calls("delete_access_key") = {}
        /\ Ids(ActiveKeys(keys)) = {result.key}
        /\ result.key \notin Ids(pre.keys)
        /\ Cardinality(keys) = 2

C3_Witness ==
    /\ pc = "done"
    /\ Cardinality(pre.keys) = 1
    /\ ActiveKeys(pre.keys) # {}
    /\ Cardinality(keys) = 2

\* the calls of op that succeeded come in this order in the attempt's log
InOrder(op1, op2) == \A i \in OkCalls(op1), j \in OkCalls(op2) : i < j

\* C4: for a user with 2 keys of which one is Inactive, rotate deletes an Inactive key,
\* whatever the last_used of the two keys and the order they are listed in, then marks
\* the remaining key Inactive, then creates a new key.
C4_InactiveKeyDeleted ==
    (Len(listed) = 2 /\ InactiveKeys(Range(listed)) # {}) =>
        /\ \A i \in Calls("delete_access_key") : log[i].arg \in Ids(InactiveKeys(Range(listed)))
        /\ InOrder("delete_access_key", "update_access_key")
        /\ InOrder("update_access_key", "create_access_key")
        /\ pc = "done" =>
              /\ Cardinality(OkCalls("delete_access_key")) = 1
              /\ Cardinality(OkCalls("update_access_key")) = 1
              /\ \E d \in InactiveKeys(Range(listed)) :
                    /\ d.AccessKeyId \notin Ids(keys)
                    /\ Ids(InactiveKeys(keys)) = Ids(Range(listed)) \ {d.AccessKeyId}
              /\ Ids(ActiveKeys(keys)) = {result.key}
              /\ Cardinality(keys) = 2

C4_Witness ==
    /\ pc = "done"
    /\ Len(listed) = 2
    /\ listed[1].Status = "Active"
    /\ listed[2].Status = "Inactive"
    /\ listed[1].LastUsedDate # None
    /\ listed[2].LastUsedDate # None
    /\ listed[1].LastUsedDate < listed[2].LastUsedDate
    /\ listed[2].AccessKeyId \notin Ids(keys)

\* the key C5 says is deleted of two Active keys, in listing order
C5_Expected(first, second) ==
    IF /\ first.LastUsedDate # None
       /\ second.LastUsedDate # None
       /\ second.LastUsedDate < first.LastUsedDate
    THEN second.AccessKeyId
    ELSE first.AccessKeyId

\* C5: for a user with 2 Active keys, the key deleted is the one with the earlier
\* last_used when both have one and they differ, whichever is listed first, and the
\* first-listed key when the two are equal or one is missing.
C5_OlderKeyDeleted ==
    (Len(listed) = 2 /\ InactiveKeys(Range(listed)) = {}) =>
        /\ \A i \in Calls("delete_access_key") : log[i].arg = C5_Expected(listed[1], listed[2])
        /\ pc = "done" =>
              /\ Cardinality(OkCalls("delete_access_key")) = 1
              /\ C5_Expected(listed[1], listed[2]) \notin Ids(keys)

C5_Witness ==
    /\ pc = "done"
    /\ Len(listed) = 2
    /\ InactiveKeys(Range(listed)) = {}
    /\ listed[1].LastUsedDate # None
    /\ listed[2].LastUsedDate # None
    /\ listed[2].LastUsedDate < listed[1].LastUsedDate
    /\ listed[2].AccessKeyId \notin Ids(keys)
    /\ listed[1].AccessKeyId \in Ids(keys)

(***************************************************************************)
(* Properties of the reconciliation                                        *)
(***************************************************************************)
\* the arguments the calls of one reconciliation loop were made with in this attempt
LoopArgs(op) == UNION {log[i].arg : i \in Calls(op)}

\* the attempt is past the group reconciliation, or past the policy reconciliation
PastGroups ==
    pc \in {"make_policy_arns", "list_attached_user_policies", "attach_user_policy",
            "detach_user_policy", "create_access_key", "done"}
PastPolicies == pc \in {"create_access_key", "done"}

\* the ARNs of the configured policies in the caller's account
ConfiguredArns == {<<"arn:aws:iam::", AccountId, ":policy/", p>> : p \in Range(secret.policies)}
ConfiguredGroups == IF secret.groups.isList THEN Range(secret.groups.items) ELSE {secret.groups.name}

\* C6: with every service call succeeding, after the group reconciliation the user's
\* groups are exactly the configured set S and after the policy reconciliation the
\* attached policies are exactly the ARNs built from S; with C the current set, add or
\* attach is called exactly for S \ C and remove or detach exactly for C \ S, so no call
\* is made for an item of both.
C6_ReconciliationExact ==
    (clean /\ calls > 0) =>
        /\ PastGroups =>
              /\ groups = ConfiguredGroups
              /\ LoopArgs("add_user_to_group") = ConfiguredGroups \ pre.groups
              /\ LoopArgs("remove_user_from_group") = pre.groups \ ConfiguredGroups
        /\ PastPolicies =>
              /\ attached = ConfiguredArns
              /\ LoopArgs("attach_user_policy") = ConfiguredArns \ pre.attached
              /\ LoopArgs("detach_user_policy") = pre.attached \ ConfiguredArns

C6_Witness ==
    /\ clean
    /\ pc = "done"
    /\ calls = 1
    /\ LoopArgs("add_user_to_group") # {}
    /\ LoopArgs("remove_user_from_group") # {}
    /\ LoopArgs("attach_user_policy") # {}
    /\ groups = ConfiguredGroups
    /\ groups # pre.groups

(***************************************************************************)
(* Properties of the error handling                                        *)
(***************************************************************************)
CoreCalls ==
    {"create_user", "list_access_keys", "get_access_key_last_used", "delete_access_key",
     "update_access_key", "create_access_key"}

\* C7: a service error in a core call of rotate (create_user, list_access_keys,
\* get_access_key_last_used, delete_access_key, update_access_key, create_access_key)
\* aborts the attempt at that step: the failed call is the last call of the attempt,
\* nothing is returned and the attempt ends with a RotationException.
C7_CoreErrorAborts ==
    \A i \in DOMAIN log :
        (log[i].op \in CoreCalls /\ log[i].ok = FALSE) =>
            /\ i = Len(log)
            /\ pc \in {"raised", "failed"}
            /\ result = NoResult

C7_Witness ==
    /\ pc = "raised"
    /\ log # <<>>
    /\ log[Len(log)].op = "update_access_key"
    /\ log[Len(log)].ok = FALSE
    /\ OkCalls("delete_access_key") # {}

ReconciliationCalls ==
    {"list_groups_for_user", "remove_user_from_group", "add_user_to_group",
     "get_caller_identity", "list_attached_user_policies", "attach_user_policy",
     "detach_user_policy"}

\* C8 as stated: no service error in the group or the policy reconciliation, the lookup
\* of the account id included, aborts rotate: an attempt never ends with a
\* RotationException at one of these calls.
C8_AsClaimed ==
    (pc = "raised" /\ log # <<>>) => log[Len(log)].op \notin ReconciliationCalls

(***************************************************************************)
(* Properties of validate_spec and redact_result                           *)
(***************************************************************************)
\* an option given a value, and the containers the options must be
Provided(config, oname) == oname \in DOMAIN config /\ config[oname].type # "NoneType"
IsMapping(v) == v.type = "dict"
IsSequence(v) == v.type = "list"

\* the configs C9 says are rejected
C9_Rejected(config) ==
    \/ Provided(config, "tags") /\ ~IsMapping(config["tags"])
    \/ Provided(config, "groups") /\ ~IsSequence(config["groups"])
    \/ Provided(config, "policies") /\ ~IsSequence(config["policies"])
    \/ DOMAIN config \ {"tags", "groups", "policies"} # {}

\* C9 as stated: for a spec that passes base validation and has a config block,
\* validate_spec returns (False, reason) when tags is provided and no mapping, when
\* groups or policies is provided and no sequence, or when config has a key outside
\* {tags, groups, policies}, and returns (True, 'All good!') otherwise.
C9_AsClaimed ==
    (vout # <<>> /\ vspec.base_ok /\ vspec.has_config) =>
        IF C9_Rejected(vspec.config)
        THEN vout[1] = FALSE
        ELSE vout = <<TRUE, <<"All good!">>>>

\* C10: redact_result changes only result['value']['secret'], which becomes '***', and
\* leaves every other field as it was; a result without 'value', or whose 'value' has no
\* 'secret', is returned unchanged; a second call changes nothing more.
C10_RedactOnlySecret ==
    rn >= 1 =>
        /\ DOMAIN rout = DOMAIN rin
        /\ \A k \in DOMAIN rin \ {"value"} : rout[k] = rin[k]
        /\ "value" \in DOMAIN rin =>
              /\ DOMAIN rout["value"] = DOMAIN rin["value"]
              /\ \A f \in DOMAIN rin["value"] :
                    rout["value"][f] = IF f = "secret" THEN "***" ELSE rin["value"][f]

C10_Witness ==
    /\ rn = 2
    /\ DOMAIN rin = {"value", "action"}
    /\ DOMAIN rin["value"] = {"provider", "key", "secret"}
    /\ rin["value"]["secret"] = "abc"
    /\ rin["value"]["key"] = "abc"
    /\ rout["value"]["secret"] = "***"

(***************************************************************************)
(* Properties of distribute and of the cached account id                   *)
(***************************************************************************)
\* C11: distribute fails with a DistributionException for every secret and every
\* destination, makes no call to the identity service and changes nothing of the user,
\* its keys, groups or policies.
C11_DistributeAlwaysFails ==
    dout # "none" =>
        /\ dout = "DistributionException"
        /\ dest \in Destinations
        /\ log = <<>>
        /\ Snapshot = pre
        /\ result = NoResult

C11_Witness ==
    /\ dout = "DistributionException"
    /\ dest = "secretsmanager"
    /\ ~exists
    /\ secret.tags # <<>>

\* the callers that got a value from _get_aws_account_id
Returned == {t \in Threads : tpc[t] = "returned"}

\* C12 as stated: on one client the account id is looked up and _account_id assigned at
\* most once, in a sequential series of calls and when two or more callers make their
\* first use of _get_aws_account_id concurrently, and every caller gets the same value.
C12_AsClaimed ==
    /\ lookups <= 1
    /\ assigns <= 1
    /\ \A t, u \in Returned : ret[t] = ret[u]

(***************************************************************************)
(* Properties of the candidate selection                                   *)
(***************************************************************************)
\* the attempt listed 2 or more keys, all Active
ListedAllActive == Len(listed) >= 2 /\ InactiveKeys(Range(listed)) = {}

\* the listed key with this id
ListedKey(kid) == CHOOSE k \in Range(listed) : k.AccessKeyId = kid

\* C13 as stated: among 2 or more Active keys, a key with no last_used is never selected
\* for deletion when another of the keys has one, whatever the listing order.
C13_AsClaimed ==
    (ListedAllActive /\ \E k \in Range(listed) : k.LastUsedDate # None) =>
        \A i \in Calls("delete_access_key") : ListedKey(log[i].arg).LastUsedDate # None

\* C13 amended: among 2 or more Active keys, a key with no last_used is selected for
\* deletion if and only if it is the first key listed: a key with no last_used listed
\* later is never selected, and when the first key listed has no last_used it is the
\* one deleted, also when another key has one.
C13_NoDataOnlyFirst ==
    ListedAllActive =>
        \A i \in Calls("delete_access_key") :
            /\ ListedKey(log[i].arg).LastUsedDate = None => log[i].arg = listed[1].AccessKeyId
            /\ listed[1].LastUsedDate = None => log[i].arg = listed[1].AccessKeyId

C13_Witness ==
    /\ pc = "done"
    /\ ListedAllActive
    /\ listed[1].LastUsedDate = None
    /\ listed[2].LastUsedDate # None
    /\ listed[1].AccessKeyId \notin Ids(keys)
    /\ listed[2].AccessKeyId \in Ids(keys)

(***************************************************************************)
(* Properties of the group reconciliation under errors                     *)
(***************************************************************************)
\* the arguments for which the calls of one reconciliation loop succeeded
OkLoopArgs(op) == UNION {log[i].ok : i \in Calls(op)}

\* the attempt listed the user's groups and has left the two loops
GroupLoopsOver ==
    /\ OkCalls("list_groups_for_user") # {}
    /\ pc \notin {"remove_user_from_group", "add_user_to_group"}

\* C14: each membership change is attempted on its own: with C the groups listed and S
\* the configured ones, remove is called for every group of C \ S and add for every
\* group of S \ C whichever of these calls fail, and those that succeed take effect;
\* when listing the user's groups fails, the attempt makes no add and no remove call.
C14_GroupChangesIndependent ==
    /\ (Calls("list_groups_for_user") # {} /\ OkCalls("list_groups_for_user") = {}) =>
          /\ LoopArgs("remove_user_from_group") = {}
          /\ LoopArgs("add_user_to_group") = {}
    /\ GroupLoopsOver =>
          /\ LoopArgs("remove_user_from_group") = recon.current \ ConfiguredGroups
          /\ LoopArgs("add_user_to_group") = ConfiguredGroups \ recon.current
          /\ groups = (recon.current \ OkLoopArgs("remove_user_from_group"))
                          \cup OkLoopArgs("add_user_to_group")

C14_Witness ==
    /\ pc = "done"
    /\ GroupLoopsOver
    /\ LoopArgs("remove_user_from_group") # {}
    /\ OkLoopArgs("remove_user_from_group") = {}
    /\ OkLoopArgs("add_user_to_group") # {}
    /\ groups = recon.current \cup ConfiguredGroups

(***************************************************************************)
(* Properties of the user provisioning                                     *)
(***************************************************************************)
\* the attempt's get_user call failed
LookupFailed == Calls("get_user") # {} /\ OkCalls("get_user") = {}

\* C15 as stated: user provisioning calls create_user if and only if get_user fails;
\* when get_user succeeds create_user is not called, whatever happens to tag_user.
C15_AsClaimed ==
    /\ Calls("create_user") # {} => LookupFailed
    /\ (LookupFailed /\ pc # "create_user") => Calls("create_user") # {}

\* C16 as stated: for an existing user tag_user is called if and only if the user's tag
\* list differs from the expected ordered list (managedby=keydra, then config.tags in
\* order) and is called with exactly that list; a second rotate with the same descriptor
\* on an unchanged account calls neither create_user nor tag_user.
C16_AsClaimed ==
    /\ (attempt = 1 /\ pre.exists /\ OkCalls("get_user") # {} /\ pc # "tag_user") =>
          (Calls("tag_user") # {} <=> pre.tags # expected_tags(secret))
    /\ \A i \in Calls("tag_user") :
          log[i].arg = <<Tag(ManagedBy, "keydra")>> \o secret.tags
    /\ (calls = 2 /\ clean) =>
          /\ Calls("create_user") = {}
          /\ Calls("tag_user") = {}

(***************************************************************************)
(* Properties of the order of the steps                                    *)
(***************************************************************************)
\* the step of rotate a service call belongs to, in the order C17 gives
StepOf ==
    [op \in {"get_user", "tag_user", "create_user"} |-> 1]
    @@ [op \in {"list_access_keys"} |-> 2]
    @@ [op \in {"get_access_key_last_used"} |-> 3]
    @@ [op \in {"delete_access_key"} |-> 4]
    @@ [op \in {"update_access_key"} |-> 5]
    @@ [op \in {"list_groups_for_user", "remove_user_from_group", "add_user_to_group"} |-> 6]
    @@ [op \in {"get_caller_identity", "list_attached_user_policies", "attach_user_policy",
                "detach_user_policy"} |-> 7]
    @@ [op \in {"create_access_key"} |-> 8]
Step(op) == StepOf[op]

\* C17: the service calls of one attempt come in the order user provisioning, key
\* listing, candidate selection and deletion, deactivation of the remaining key, group
\* reconciliation, policy reconciliation, key creation; a deletion, a deactivation and
\* a creation each come after a call of an earlier step, so there is at most one of
\* each; a successful attempt has listed the keys, the groups and the attached policies
\* once each and its last call is the successful create_access_key.
C17_StepsInOrder ==
    /\ \A i \in 1..(Len(log) - 1) :
          LET a == Step(log[i].op)
              b == Step(log[i + 1].op)
          IN  a <= b /\ (b \in {4, 5, 8} => a < b)
    /\ pc = "done" =>
          /\ log[Len(log)].op = "create_access_key"
          /\ log[Len(log)].ok = TRUE
          /\ \A op \in {"list_access_keys", "list_groups_for_user", "list_attached_user_policies"} :
                Cardinality(Calls(op)) = 1

C17_Witness ==
    /\ pc = "done"
    /\ OkCalls("delete_access_key") # {}
    /\ OkCalls("update_access_key") # {}
    /\ LoopArgs("add_user_to_group") # {}
    /\ LoopArgs("attach_user_policy") # {}
    /\ OkCalls("get_caller_identity") # {}

(***************************************************************************)
(* Properties of the keys across attempts                                  *)
(***************************************************************************)
\* C18: for a user that starts with at most 2 keys and is changed only by rotate, at
\* every point of every attempt, failed, retried or successful, the user has at most 2
\* keys; an attempt deletes at most one key, and only when it listed more than one; it
\* calls create_access_key only when at most one of the listed keys remains, so the
\* user has at most one key when the new one is asked for.
C18_AtMostTwoKeys ==
    /\ Cardinality(keys) <= 2
    /\ Cardinality(Calls("delete_access_key")) <= 1
    /\ Calls("delete_access_key") # {} => Len(listed) > 1
    /\ (pc = "create_access_key" \/ Calls("create_access_key") # {}) =>
          /\ Len(listed) - Cardinality(OkCalls("delete_access_key")) <= 1
          /\ Cardinality(keys \ {k \in keys : k.AccessKeyId = result.key}) <= 1

C18_Witness ==
    /\ pc = "done"
    /\ calls = 2
    /\ attempt = 3
    /\ Len(listed) = 2
    /\ OkCalls("delete_access_key") # {}
    /\ Cardinality(keys) = 2
    /\ pre.created = 1

\* a key stays as it is, is deleted, or goes from Active to Inactive
KeyStep(k) ==
    \/ k \in keys'
    \/ k.AccessKeyId \notin Ids(keys')
    \/ k.Status = "Active" /\ [k EXCEPT !.Status = "Inactive"] \in keys'

\* the user's only key was Active when rotate was called, and no new key was created yet
OnlyKeyWasActive ==
    /\ Cardinality(pre.keys) = 1
    /\ ActiveKeys(pre.keys) = pre.keys
    /\ created = pre.created

\* C19: rotate never sets a key's status to Active and never undoes a deletion or a
\* deactivation: a key only stays, goes from Active to Inactive or is deleted, and a key
\* that appears is the new one.  So when an attempt for a user whose only key was Active
\* fails at the account-id lookup or at create_access_key, the key is Inactive and the
\* user has no Active key, and this holds on through every further failed attempt.
C19_NoRollback ==
    /\ [][/\ \A k \in keys : KeyStep(k)
          /\ \A k \in keys' : k.AccessKeyId \in Ids(keys) \/ k.AccessKeyId = KeyQuota + created']_vars
    /\ [](OnlyKeyWasActive =>
            /\ Ids(keys) = Ids(pre.keys)
            /\ (pc \in {"raised", "failed"} /\ log # <<>>
                   /\ log[Len(log)].op \in {"get_caller_identity", "create_access_key"})
                  => ActiveKeys(keys) = {})
    /\ [][(OnlyKeyWasActive /\ calls > 0 /\ ActiveKeys(keys) = {} /\ calls' = calls /\ pc' # "done")
            => ActiveKeys(keys') = {}]_vars

C19_Witness ==
    /\ pc = "failed"
    /\ OnlyKeyWasActive
    /\ calls = 1
    /\ log[Len(log)].op = "get_caller_identity"
    /\ ActiveKeys(keys) = {}
    /\ Cardinality(keys) = 1

====
